---------------------------- MODULE Spec2Model ----------------------------
(***************************************************************************)
(* Model of src/package.rs: the package entity, the publish handler `new`  *)
(* with its drop-based rollback guard (Bomb), the listing handler `index`  *)
(* and the download handler `download`.                                    *)
(*                                                                         *)
(* Strings are sequences of one-character strings, so that lower-casing,   *)
(* the name charset rule and the formatting of blob paths are computed.    *)
(* An Option<T> is a sequence of length 0 (None) or 1 (Some).  A header is *)
(* the Vec of its values, empty when the header is absent.                 *)
(*                                                                         *)
(* Every statement sent to the relational store, every call to the blob    *)
(* store and the call to the git index is one atomic step; the steps of    *)
(* concurrent requests interleave freely.                                  *)
(***************************************************************************)
EXTENDS Integers, Sequences, FiniteSets, TLC

\* ------------------------------------------------------------------------
\* Bounds of the model.

\* Publish requests received over the whole run.
MaxRequests == 2

\* ------------------------------------------------------------------------
\* Characters and strings.

Lower == {"a", "b", "c"}
Upper == {"A", "B"}
Digit == {"0", "1", "2"}

\* char::to_lowercase, on the alphabet above.
to_lowercase(c) ==
    CASE c = "A" -> "a"
      [] c = "B" -> "b"
      [] OTHER -> c

\* char::is_alphanumeric, on the alphabet above.
is_alphanumeric(c) == c \in Lower \cup Upper \cup Digit

\* name.chars().map(|c| c.to_lowercase()).collect()
lowercase(s) == [i \in 1..Len(s) |-> to_lowercase(s[i])]

\* valid_name with the charset rule left out.
valid_name_nonempty(name) == Len(name) # 0

\* Package::valid_name
valid_name(name) ==
    IF Len(name) = 0 THEN FALSE
    ELSE \A i \in 1..Len(name) :
            is_alphanumeric(name[i]) \/ name[i] = "_" \/ name[i] = "-"

\* Package::s3_path: format!("/pkg/{}/{}-{}.tar.gz", name, name, version)
s3_path(name, version) ==
    <<"/", "p", "k", "g", "/">> \o name \o <<"/">> \o name \o <<"-">>
        \o version \o <<".", "t", "a", "r", ".", "g", "z">>

\* The decimal digits of a semantic version's three numeric fields.
IsNumber(s) == Len(s) > 0 /\ \A i \in 1..Len(s) : s[i] \in Digit

\* The positions of the dots of s.
Dots(s) == {i \in 1..Len(s) : s[i] = "."}

\* Version::valid: MAJOR.MINOR.PATCH, each a run of digits.
VersionValid(s) ==
    /\ Cardinality(Dots(s)) = 2
    /\ LET d1 == CHOOSE i \in Dots(s) : \A j \in Dots(s) : i <= j
           d2 == CHOOSE i \in Dots(s) : \A j \in Dots(s) : j <= i
       IN  /\ IsNumber(SubSeq(s, 1, d1 - 1))
           /\ IsNumber(SubSeq(s, d1 + 1, d2 - 1))
           /\ IsNumber(SubSeq(s, d2 + 1, Len(s)))


\* ------------------------------------------------------------------------
\* The request-parallel workers (spec section 5) and the requests they get.

Workers == {"w1", "w2"}

\* app.config.max_upload_size
max_upload_size == 10

NameA == <<"a">>
NameB == <<"b">>
NameC == <<"c">>
V100 == <<"1", ".", "0", ".", "0">>
V200 == <<"2", ".", "0", ".", "0">>

\* One item of the X-Cargo-Pkg-Dep header after split(';'): well-formed items
\* carry the dependency's name.
Dep(name) == [ok |-> TRUE, name |-> name]
BadDep == [ok |-> FALSE, name |-> <<>>]

\* The headers of a well-formed upload of name@vers by the holder of `auth`.
UploadRequest(auth, name, vers, deps) ==
    [auth |-> <<auth>>, name |-> <<name>>, vers |-> <<vers>>,
     feat |-> <<"{}">>, deps |-> deps, length |-> <<10>>,
     ty |-> <<"application/x-tar">>, enc |-> <<"gzip">>]

Base == UploadRequest("t1", NameA, V100, <<>>)

\* Well-formed uploads: two names, two versions, two accounts, a dependency
\* list whose first name can resolve and whose second never does.
GoodRequests ==
    { UploadRequest("t1", NameA, V100, <<>>),
      UploadRequest("t1", NameA, V200, <<>>),
      UploadRequest("t2", NameA, V100, <<>>),
      UploadRequest("t1", NameB, V100, <<Dep(NameA)>>),
      UploadRequest("t1", NameB, V100, <<Dep(NameA), Dep(NameC)>>) }

\* The same upload as Base, written with an upper-case name and the other
\* accepted encoding.
BaseUpper == [Base EXCEPT !.name = <<<<"A">>>>, !.enc = <<"x-gzip">>]

\* Uploads that differ from Base in the one field that makes them invalid.
BadRequests ==
    { [Base EXCEPT !.auth = <<>>],
      [Base EXCEPT !.name = <<>>],
      [Base EXCEPT !.vers = <<>>],
      [Base EXCEPT !.feat = <<>>],
      [Base EXCEPT !.deps = <<Dep(NameA), BadDep>>],
      [Base EXCEPT !.feat = <<"{">>],
      [Base EXCEPT !.length = <<>>],
      [Base EXCEPT !.length = <<max_upload_size + 1>>],
      [Base EXCEPT !.ty = <<>>],
      [Base EXCEPT !.ty = <<"text/plain">>],
      [Base EXCEPT !.enc = <<>>],
      [Base EXCEPT !.enc = <<"identity">>],
      [Base EXCEPT !.auth = <<"t9">>],
      [Base EXCEPT !.name = <<<<>>>>],
      [Base EXCEPT !.name = <<<<"a", "!">>>>],
      [Base EXCEPT !.vers = <<<<"1", ".", "0">>>>],
      [Base EXCEPT !.vers = <<<<"1", ".", "a", ".", "0">>>>] }

\* The uploads sent in a run of the publish saga, and in a run that probes
\* the validation of the headers.
PublishRequests == GoodRequests \cup {[Base EXCEPT !.ty = <<"text/plain">>]}
HeaderRequests ==
    BadRequests \cup {Base, BaseUpper, UploadRequest("t1", NameB, V100, <<Dep(NameA)>>)}

\* User::find_by_api_token: the accounts table, fixed during a run.
find_by_api_token(token) ==
    CASE token = "t1" -> <<1>>
      [] token = "t2" -> <<2>>
      [] OTHER -> <<>>

\* json::decode of the feature header.
json_decode_ok(feat) == feat = "{}"

NoPackage == [id |-> 0, name |-> <<>>, user_id |-> 0, downloads |-> 0]
NoVersion == [id |-> 0, package_id |-> 0, num |-> <<>>, downloads |-> 0]
NoNewPackage == [name |-> <<>>, vers |-> <<>>, deps |-> <<>>, cksum |-> ""]

\* The error of a failed parse_new_headers, by its message.
Rejections ==
    {"missing header", "malformed dependency", "malformed feature header",
     "missing header: Content-Length", "max upload size",
     "expected application/x-tar", "expected gzip",
     "invalid or unknown auth token", "invalid package name",
     "invalid package version"}

Rejected(msg) == [err |-> msg, new_pkg |-> NoNewPackage, user |-> 0]

\* parse_new_headers: the first failing check decides the error; on success
\* the NewPackage (name lower-cased) and the authenticated user's id.
parse_new_headers(h) ==
    IF h.auth = <<>> \/ h.name = <<>> \/ h.vers = <<>> \/ h.feat = <<>>
        THEN Rejected("missing header")
    ELSE IF \E i \in 1..Len(h.deps) : ~h.deps[i].ok
        THEN Rejected("malformed dependency")
    ELSE IF ~json_decode_ok(h.feat[1])
        THEN Rejected("malformed feature header")
    ELSE IF h.length = <<>>
        THEN Rejected("missing header: Content-Length")
    ELSE IF h.length[1] > max_upload_size
        THEN Rejected("max upload size")
    ELSE IF h.ty = <<>>
        THEN Rejected("missing header")
    ELSE IF h.ty[1] # "application/x-tar"
        THEN Rejected("expected application/x-tar")
    ELSE IF h.enc = <<>>
        THEN Rejected("missing header")
    ELSE IF h.enc[1] # "gzip" /\ h.enc[1] # "x-gzip"
        THEN Rejected("expected gzip")
    ELSE IF find_by_api_token(h.auth[1]) = <<>>
        THEN Rejected("invalid or unknown auth token")
    ELSE IF ~valid_name(lowercase(h.name[1]))
        THEN Rejected("invalid package name")
    ELSE IF ~VersionValid(h.vers[1])
        THEN Rejected("invalid package version")
    ELSE [err |-> "",
          new_pkg |-> [name |-> lowercase(h.name[1]), vers |-> h.vers[1],
                       deps |-> [i \in 1..Len(h.deps) |-> h.deps[i].name],
                       cksum |-> ""],
          user |-> find_by_api_token(h.auth[1])[1]]


\* ------------------------------------------------------------------------
\* State.

VARIABLES
    packages,              \* table packages: rows in insertion order, id = position
    versions,              \* table versions: rows in insertion order, id = position
    version_dependencies,  \* table version_dependencies: <<version_id, depends_on_id>>
    blobs,                 \* the bucket: the paths that hold an object
    index,                 \* the git index: the registered [name, vers, cksum]
    reqs,                  \* the uploads clients send in this run
    started,               \* publish requests received so far
    seen,                  \* the <<name, vers>> of every upload that passed validation
    pc,                    \* per worker: the statement of `new` it is at
    req,                   \* per worker: the request's headers
    new_pkg,               \* per worker: the local new_pkg
    user,                  \* per worker: the local user (its id)
    pkg,                   \* per worker: the local pkg
    vers,                  \* per worker: the local vers
    dep_i,                 \* per worker: position in new_pkg.deps of the loop
    bomb,                  \* per worker: Bomb.path, an Option
    result,                \* per worker: what `new` returned
    did,                   \* per worker: the writes this request has made
    puts,                  \* the paths ever PUT with a 200 answer, with their count
    at_start,              \* per worker: what held when the request arrived
    resp,                  \* the last answer of `index`, with its query
    oks,                   \* the <<name, vers>> whose publish returned Ok, with their count
    total_downloads,       \* table metadata: total_downloads, an i64
    dl,                    \* per downloader: the locals of `download` and its answer
    dl_started,            \* download requests received so far
    dl_reqs                \* the download requests clients send in this run

vars == <<packages, versions, version_dependencies, blobs, index, reqs,
          started, seen, pc, req, new_pkg, user, pkg, vers, dep_i, bomb,
          result, did, puts, at_start, resp, oks, total_downloads, dl,
          dl_started, dl_reqs>>

stores == <<packages, versions, version_dependencies, blobs, index>>
locals == <<new_pkg, user, pkg, vers, dep_i, bomb>>
dlvars == <<total_downloads, dl, dl_started, dl_reqs>>

\* What a request has written: rows and edges inserted, the path it PUT and
\* the path it sent a DELETE for (Options), its registration in the index.
NoWrites == [pkg_row |-> FALSE, vers_row |-> FALSE, edges |-> 0,
             put |-> <<>>, delete |-> <<>>, register |-> FALSE]

\* ------------------------------------------------------------------------
\* Queries.

Min(S) == CHOOSE x \in S : \A y \in S : x <= y

\* SELECT * FROM packages WHERE name = $1: the first row, as an Option.
find_by_name(name) ==
    LET hits == {i \in 1..Len(packages) : packages[i].name = name}
    IN  IF hits = {} THEN <<>> ELSE <<packages[Min(hits)]>>

\* Version::find_by_num: the version row of (package_id, num), as an Option.
find_by_num(package_id, num) ==
    LET hits == {i \in 1..Len(versions) :
                    versions[i].package_id = package_id /\ versions[i].num = num}
    IN  IF hits = {} THEN <<>> ELSE <<versions[Min(hits)]>>

\* The store's uniqueness constraint on packages.name: an INSERT of a name
\* that has a row is refused.
packages_name_taken(name) == find_by_name(name) # <<>>

\* The store's uniqueness constraint on versions (package_id, num).
versions_num_taken(package_id, num) == find_by_num(package_id, num) # <<>>

\* Package::versions: SELECT * FROM versions WHERE package_id = $1.
package_versions(package_id) ==
    SelectSeq(versions, LAMBDA v : v.package_id = package_id)

\* show: the version numbers listed for the package of that name; NotFound
\* (the empty Option) when there is no such package.
show(name) ==
    IF find_by_name(name) = <<>> THEN <<>>
    ELSE LET vs == package_versions(find_by_name(name)[1].id)
         IN  <<{vs[i].num : i \in 1..Len(vs)}>>


\* ------------------------------------------------------------------------
\* 64-bit integers, as four 16-bit limbs, least significant first, in two's
\* complement: the arithmetic of `index` on the page number wraps.

Limb == 2^16

\* The i64 of a small integer.
I64(n) ==
    IF n >= 0 THEN <<n, 0, 0, 0>>
    ELSE <<Limb + n, Limb - 1, Limb - 1, Limb - 1>>

is_negative(x) == x[4] >= Limb \div 2

\* x - 1, wrapping.
wrapping_dec(x) ==
    IF x[1] > 0 THEN <<x[1] - 1, x[2], x[3], x[4]>>
    ELSE IF x[2] > 0 THEN <<Limb - 1, x[2] - 1, x[3], x[4]>>
    ELSE IF x[3] > 0 THEN <<Limb - 1, Limb - 1, x[3] - 1, x[4]>>
    ELSE IF x[4] > 0 THEN <<Limb - 1, Limb - 1, Limb - 1, x[4] - 1>>
    ELSE <<Limb - 1, Limb - 1, Limb - 1, Limb - 1>>

\* x * k, wrapping, for 0 <= k <= 100.
wrapping_mul(x, k) ==
    LET p1 == x[1] * k
        p2 == x[2] * k + p1 \div Limb
        p3 == x[3] * k + p2 \div Limb
        p4 == x[4] * k + p3 \div Limb
    IN  <<p1 % Limb, p2 % Limb, p3 % Limb, p4 % Limb>>

\* The value of a non-negative x when it is below 2^16, else 2^16: more
\* than any table of the model has rows.
clamped(x) == IF x[2] = 0 /\ x[3] = 0 /\ x[4] = 0 THEN x[1] ELSE Limb

\* ------------------------------------------------------------------------
\* The listing handler `index`.

NoResponse == [kind |-> "none"]

\* name LIKE pattern, for the patterns `index` builds: "%" or one character
\* followed by "%"; in the character's place "_" matches any one character
\* and "%" any string.
like(name, pattern) ==
    IF pattern = <<"%">> \/ pattern[1] = "%" THEN TRUE
    ELSE IF pattern[1] = "_" THEN Len(name) >= 1
    ELSE Len(name) >= 1 /\ name[1] = pattern[1]

\* Lines 128-146, Package::encode_many: the version ids of each package, by
\* a map filled from the versions of the batch; a package with no entry in
\* the map makes unwrap() fail. The Option is empty on that failure.
encode_many(pkgs) ==
    LET ids(p) == {i \in 1..Len(versions) : versions[i].package_id = p.id}
    IN  IF \E i \in 1..Len(pkgs) : ids(pkgs[i]) = {}
          THEN <<>>
          ELSE <<[i \in 1..Len(pkgs) |->
                    [name |-> pkgs[i].name, versions |-> ids(pkgs[i]),
                     downloads |-> pkgs[i].downloads]]>>

\* Lines 149-188, `index`, for the parsed query: page and per_page as i64
\* (per_page a small one), letter an Option of a string. The store refuses
\* a negative LIMIT or OFFSET; rows come in table order.
index_response(page, limit, letter) ==
    IF limit > 100
      THEN [kind |-> "err", msg |-> "cannot request more than 100 packages"]
    ELSE IF letter # <<>> /\ letter[1] = <<>>
      THEN [kind |-> "panic", msg |-> "char_at(0) of an empty string"]
    ELSE
      LET offset == IF limit >= 0 THEN wrapping_mul(wrapping_dec(page), limit)
                    ELSE I64(0)
          pattern == IF letter = <<>> THEN <<"%">>
                     ELSE <<to_lowercase(letter[1][1]), "%">>
          hits == SelectSeq(packages, LAMBDA p : like(p.name, pattern))
      IN  IF limit < 0 \/ is_negative(offset)
            THEN [kind |-> "err", msg |-> "store: negative LIMIT or OFFSET"]
          ELSE
            LET first == clamped(offset) + 1
                last == IF clamped(offset) + limit > Len(hits) THEN Len(hits)
                        ELSE clamped(offset) + limit
                pkgs == encode_many(SubSeq(hits, first, last))
            IN  IF pkgs = <<>>
                  THEN [kind |-> "panic", msg |-> "unwrap() of None"]
                  ELSE [kind |-> "ok", packages |-> pkgs[1],
                        total |-> Len(hits)]

\* ------------------------------------------------------------------------
\* The download handler `download`: strings, the join, the counters.

\* The clients that download (spec section 5: one worker per request).
Downloaders == {"d1", "d2"}

TarGz == <<".", "t", "a", "r", ".", "g", "z">>

\* str::starts_with, str::ends_with
starts_with(s, prefix) ==
    Len(prefix) <= Len(s) /\ SubSeq(s, 1, Len(prefix)) = prefix

ends_with(s, suffix) ==
    Len(suffix) <= Len(s) /\ SubSeq(s, Len(s) - Len(suffix) + 1, Len(s)) = suffix

\* str::slice(begin, end): the bytes begin..end of s.  It fails (the task
\* panics) when begin > end or end > s.len(); the Option is empty then.
slice(s, begin, end) ==
    IF begin > end \/ end > Len(s) THEN <<>>
    ELSE <<SubSeq(s, begin + 1, end)>>

\* Lines 444-453: the join of packages and versions on the name and the
\* number, LIMIT 1: an Option of <<package_id, version_id>>.
find_download(pkg_name, version) ==
    LET hits == {h \in (1..Len(packages)) \X (1..Len(versions)) :
                    /\ packages[h[1]].name = pkg_name
                    /\ versions[h[2]].package_id = packages[h[1]].id
                    /\ versions[h[2]].num = version}
    IN  IF hits = {} THEN <<>>
        ELSE <<CHOOSE h \in hits :
                 \A g \in hits : h[1] < g[1] \/ (h[1] = g[1] /\ h[2] <= g[2])>>

\* The largest value of the i32 `downloads` columns.
i32_MAX == 2147483647

\* The store refuses an UPDATE whose value leaves the column's range.
column_full(n) == n = i32_MAX

\* An UPDATE that takes a download off the counter.
downloads_minus_one(n) == n - 1

\* An UPDATE that writes the counter back as it read it.
downloads_unchanged(n) == n

\* Lines 464-467: SET downloads = downloads + 1
downloads_plus_one(n) == n + 1

\* The largest i64: the range of metadata.total_downloads.
i64_MAX == <<Limb - 1, Limb - 1, Limb - 1, Limb \div 2 - 1>>

\* Line 468: SET total_downloads = total_downloads + 1, on the limbs.
total_downloads_plus_one(x) ==
    IF x[1] < Limb - 1 THEN <<x[1] + 1, x[2], x[3], x[4]>>
    ELSE IF x[2] < Limb - 1 THEN <<0, x[2] + 1, x[3], x[4]>>
    ELSE IF x[3] < Limb - 1 THEN <<0, 0, x[3] + 1, x[4]>>
    ELSE <<0, 0, 0, (x[4] + 1) % Limb>>

\* x <= y for non-negative i64.
I64Leq(x, y) ==
    \/ x[4] < y[4]
    \/ x[4] = y[4] /\ x[3] < y[3]
    \/ x[4] = y[4] /\ x[3] = y[3] /\ x[2] < y[2]
    \/ x[4] = y[4] /\ x[3] = y[3] /\ x[2] = y[2] /\ x[1] <= y[1]

\* req.app().bucket.host()
bucket_host == <<"s", "3">>

\* Lines 472-474: format!("https://{}/pkg/{}/{}-{}.tar.gz", host, pkg_name,
\* pkg_name, version)
redirect_url(pkg_name, version) ==
    <<"h", "t", "t", "p", "s", ":", "/", "/">> \o bucket_host
        \o <<"/", "p", "k", "g", "/">> \o pkg_name \o <<"/">> \o pkg_name
        \o <<"-">> \o version \o <<".", "t", "a", "r", ".", "g", "z">>

\* The statements of `download` that have written: each UPDATE, a count.
NoBumps == [packages |-> 0, versions |-> 0, metadata |-> 0]

\* A downloader between requests.
NoDownload ==
    [pc |-> "idle", pkg_name |-> <<>>, filename |-> <<>>, wants_json |-> FALSE,
     version |-> <<>>, package_id |-> 0, version_id |-> 0,
     kind |-> "none", msg |-> "", url |-> <<>>, bumped |-> NoBumps]

\* ------------------------------------------------------------------------
\* The publish handler `new`, one action per statement that talks to a store.

Init ==
    /\ packages = <<>>
    /\ versions = <<>>
    /\ version_dependencies = {}
    /\ blobs = {}
    /\ index = {}
    /\ reqs = PublishRequests
    /\ started = 0
    /\ seen = {}
    /\ pc = [w \in Workers |-> "idle"]
    /\ req = [w \in Workers |-> Base]
    /\ new_pkg = [w \in Workers |-> NoNewPackage]
    /\ user = [w \in Workers |-> 0]
    /\ pkg = [w \in Workers |-> NoPackage]
    /\ vers = [w \in Workers |-> NoVersion]
    /\ dep_i = [w \in Workers |-> 0]
    /\ bomb = [w \in Workers |-> <<>>]
    /\ result = [w \in Workers |-> ""]
    /\ did = [w \in Workers |-> NoWrites]
    /\ puts = <<>>
    /\ at_start = [w \in Workers |-> [existed |-> FALSE, fresh |-> FALSE]]
    /\ resp = NoResponse
    /\ oks = <<>>
    /\ total_downloads = I64(0)
    /\ dl = [d \in Downloaders |-> NoDownload]
    /\ dl_started = 0
    /\ dl_reqs = {}

\* `new` goes on to the statement `label`.
Goto(w, label) ==
    /\ pc' = [pc EXCEPT ![w] = label]
    /\ UNCHANGED result

\* `new` returns: Ok, or the error `tag`.
Return(w, tag) ==
    /\ pc' = [pc EXCEPT ![w] = "done"]
    /\ result' = [result EXCEPT ![w] = tag]

\* Lines 280, 373-432: a worker takes a request and parses its headers.
ParseNewHeaders(w, h) ==
    /\ pc[w] \in {"idle", "done"}
    /\ started < MaxRequests
    /\ started' = started + 1
    /\ req' = [req EXCEPT ![w] = h]
    /\ LET p == parse_new_headers(h)
           key == <<p.new_pkg.name, p.new_pkg.vers>>
           row == find_by_name(p.new_pkg.name)
       IN  /\ new_pkg' = [new_pkg EXCEPT ![w] = p.new_pkg]
           /\ user' = [user EXCEPT ![w] = p.user]
           /\ IF p.err # ""
                THEN /\ Return(w, p.err)
                     /\ at_start' = [at_start EXCEPT
                                        ![w] = [existed |-> FALSE, fresh |-> FALSE]]
                     /\ UNCHANGED seen
                ELSE /\ pc' = [pc EXCEPT ![w] = "find_or_insert"]
                     /\ result' = [result EXCEPT ![w] = ""]
                     /\ at_start' = [at_start EXCEPT ![w] =
                            [existed |-> /\ row # <<>>
                                         /\ find_by_num(row[1].id, p.new_pkg.vers) # <<>>,
                             fresh |-> key \notin seen]]
                     /\ seen' = seen \cup {key}
    /\ pkg' = [pkg EXCEPT ![w] = NoPackage]
    /\ vers' = [vers EXCEPT ![w] = NoVersion]
    /\ dep_i' = [dep_i EXCEPT ![w] = 0]
    /\ bomb' = [bomb EXCEPT ![w] = <<>>]
    /\ did' = [did EXCEPT ![w] = NoWrites]
    /\ UNCHANGED <<stores, reqs, puts, resp, oks, dlvars>>

\* The continuation of find_or_insert with the comparison of line 286 left
\* out.
OwnershipUnchecked(w, p) ==
    /\ pkg' = [pkg EXCEPT ![w] = p]
    /\ Goto(w, "find_by_num")

\* Lines 286-298 entered with the package find_or_insert returned: the
\* ownership check, then on to Version::find_by_num.
OwnershipCheck(w, p) ==
    /\ pkg' = [pkg EXCEPT ![w] = p]
    /\ IF p.user_id # user[w]
         THEN Return(w, "OwnershipConflict")
         ELSE Goto(w, "find_by_num")

\* find_or_insert's SELECT with its WHERE clause left out: the first row of
\* the table, whatever its name.
FindOrInsertSelectAnyName(w, dbOk) ==
    /\ pc[w] = "find_or_insert"
    /\ IF ~dbOk
         THEN Return(w, "StoreFailure") /\ UNCHANGED pkg
         ELSE IF packages # <<>>
                THEN OwnershipCheck(w, packages[1])
                ELSE Goto(w, "insert_package") /\ UNCHANGED pkg
    /\ UNCHANGED <<stores, reqs, started, seen, req, new_pkg, user, vers,
                   dep_i, bomb, did, puts, at_start, resp, oks, dlvars>>

\* Lines 78-83: find_or_insert's SELECT.
FindOrInsertSelect(w, dbOk) ==
    /\ pc[w] = "find_or_insert"
    /\ IF ~dbOk
         THEN Return(w, "StoreFailure") /\ UNCHANGED pkg
         ELSE LET rows == find_by_name(new_pkg[w].name)
              IN  IF rows # <<>>
                    THEN OwnershipCheck(w, rows[1])
                    ELSE Goto(w, "insert_package") /\ UNCHANGED pkg
    /\ UNCHANGED <<stores, reqs, started, seen, req, new_pkg, user, vers,
                   dep_i, bomb, did, puts, at_start, resp, oks, dlvars>>

\* Lines 84-93: find_or_insert's INSERT ... RETURNING *; the store refuses a
\* second row of the same name.
FindOrInsertInsert(w, dbOk) ==
    /\ pc[w] = "insert_package"
    /\ IF ~dbOk
         THEN /\ Return(w, "StoreFailure")
              /\ UNCHANGED <<packages, pkg, did>>
         ELSE IF packages_name_taken(new_pkg[w].name)
         THEN /\ Return(w, "DuplicateKey")
              /\ UNCHANGED <<packages, pkg, did>>
         ELSE LET row == [id |-> Len(packages) + 1, name |-> new_pkg[w].name,
                          user_id |-> user[w], downloads |-> 0]
              IN  /\ packages' = Append(packages, row)
                  /\ did' = [did EXCEPT ![w].pkg_row = TRUE]
                  /\ OwnershipCheck(w, row)
    /\ UNCHANGED <<versions, version_dependencies, blobs, index, reqs,
                   started, seen, req, new_pkg, user, vers, dep_i, bomb,
                   puts, at_start, resp, oks, dlvars>>

\* The existence check with its Some(..) arm left out.
FindByNumUnchecked(w, dbOk) ==
    /\ pc[w] = "find_by_num"
    /\ IF ~dbOk
         THEN Return(w, "StoreFailure")
         ELSE Goto(w, "insert_version")
    /\ UNCHANGED <<stores, reqs, started, seen, req, locals, did, puts,
                   at_start, resp, oks, dlvars>>

\* Lines 291-298: the pre-publish existence check.
FindByNum(w, dbOk) ==
    /\ pc[w] = "find_by_num"
    /\ IF ~dbOk
         THEN Return(w, "StoreFailure")
         ELSE IF find_by_num(pkg[w].id, new_pkg[w].vers) # <<>>
         THEN Return(w, "VersionAlreadyPublished")
         ELSE Goto(w, "insert_version")
    /\ UNCHANGED <<stores, reqs, started, seen, req, locals, did, puts,
                   at_start, resp, oks, dlvars>>

\* Version::insert on a table without the uniqueness constraint.
VersionInsertUnconstrained(w, dbOk) ==
    /\ pc[w] = "insert_version"
    /\ IF ~dbOk
         THEN /\ Return(w, "StoreFailure")
              /\ UNCHANGED <<versions, vers, dep_i, did>>
         ELSE LET row == [id |-> Len(versions) + 1, package_id |-> pkg[w].id,
                          num |-> new_pkg[w].vers, downloads |-> 0]
              IN  /\ versions' = Append(versions, row)
                  /\ vers' = [vers EXCEPT ![w] = row]
                  /\ did' = [did EXCEPT ![w].vers_row = TRUE]
                  /\ dep_i' = [dep_i EXCEPT ![w] = 1]
                  /\ Goto(w, IF new_pkg[w].deps = <<>> THEN "upload"
                             ELSE "link_dependency")
    /\ UNCHANGED <<packages, version_dependencies, blobs, index, reqs,
                   started, seen, req, new_pkg, user, pkg, bomb, puts,
                   at_start, resp, oks, dlvars>>

\* Lines 299-300: Version::insert; the store refuses a second row of the same
\* (package_id, num).  With no dependency declared the loop of line 303 is
\* skipped.
VersionInsert(w, dbOk) ==
    /\ pc[w] = "insert_version"
    /\ IF ~dbOk
         THEN /\ Return(w, "StoreFailure")
              /\ UNCHANGED <<versions, vers, dep_i, did>>
         ELSE IF versions_num_taken(pkg[w].id, new_pkg[w].vers)
         THEN /\ Return(w, "Conflict")
              /\ UNCHANGED <<versions, vers, dep_i, did>>
         ELSE LET row == [id |-> Len(versions) + 1, package_id |-> pkg[w].id,
                          num |-> new_pkg[w].vers, downloads |-> 0]
              IN  /\ versions' = Append(versions, row)
                  /\ vers' = [vers EXCEPT ![w] = row]
                  /\ did' = [did EXCEPT ![w].vers_row = TRUE]
                  /\ dep_i' = [dep_i EXCEPT ![w] = 1]
                  /\ Goto(w, IF new_pkg[w].deps = <<>> THEN "upload"
                             ELSE "link_dependency")
    /\ UNCHANGED <<packages, version_dependencies, blobs, index, reqs,
                   started, seen, req, new_pkg, user, pkg, bomb, puts,
                   at_start, resp, oks, dlvars>>

\* The loop of line 303 left after its first turn.
LinkDependencyOnce(w, dbOk) ==
    /\ pc[w] = "link_dependency"
    /\ LET dep == find_by_name(new_pkg[w].deps[dep_i[w]])
       IN  IF dep = <<>>
             THEN /\ Return(w, "UnknownDependency")
                  /\ UNCHANGED <<version_dependencies, dep_i, did>>
             ELSE IF ~dbOk
             THEN /\ Return(w, "StoreFailure")
                  /\ UNCHANGED <<version_dependencies, dep_i, did>>
             ELSE /\ version_dependencies' =
                        version_dependencies \cup {<<vers[w].id, dep[1].id>>}
                  /\ did' = [did EXCEPT ![w].edges = @ + 1]
                  /\ dep_i' = [dep_i EXCEPT ![w] = @ + 1]
                  /\ Goto(w, "upload")
    /\ UNCHANGED <<packages, versions, blobs, index, reqs, started, seen,
                   req, new_pkg, user, pkg, vers, bomb, puts, at_start, resp,
                   oks, dlvars>>

\* Lines 303-311, one turn of the loop: resolve the dependency by name (any
\* failure of the lookup is reported as an unknown package), then insert the
\* edge; dbOk is the store's answer to the INSERT.
LinkDependency(w, dbOk) ==
    /\ pc[w] = "link_dependency"
    /\ LET dep == find_by_name(new_pkg[w].deps[dep_i[w]])
       IN  IF dep = <<>>
             THEN /\ Return(w, "UnknownDependency")
                  /\ UNCHANGED <<version_dependencies, dep_i, did>>
             ELSE IF ~dbOk
             THEN /\ Return(w, "StoreFailure")
                  /\ UNCHANGED <<version_dependencies, dep_i, did>>
             ELSE /\ version_dependencies' =
                        version_dependencies \cup {<<vers[w].id, dep[1].id>>}
                  /\ did' = [did EXCEPT ![w].edges = @ + 1]
                  /\ dep_i' = [dep_i EXCEPT ![w] = @ + 1]
                  /\ Goto(w, IF dep_i[w] = Len(new_pkg[w].deps) THEN "upload"
                             ELSE "link_dependency")
    /\ UNCHANGED <<packages, versions, blobs, index, reqs, started, seen,
                   req, new_pkg, user, pkg, vers, bomb, puts, at_start, resp, oks, dlvars>>

\* The PUT with the Bomb built before it (line 356 ahead of line 320): a
\* failed PUT leaves `new` through the Bomb's drop.
UploadBombFirst(w, answer) ==
    /\ pc[w] = "upload"
    /\ LET path == s3_path(pkg[w].name, new_pkg[w].vers)
       IN  /\ bomb' = [bomb EXCEPT ![w] = <<path>>]
           /\ IF answer = "ok"
                THEN /\ blobs' = blobs \cup {path}
                     /\ new_pkg' = [new_pkg EXCEPT ![w].cksum = "digest"]
                     /\ did' = [did EXCEPT ![w].put = <<path>>]
                     /\ puts' = IF path \in DOMAIN puts
                                   THEN [puts EXCEPT ![path] = @ + 1]
                                   ELSE puts @@ (path :> 1)
                     /\ Goto(w, "find_by_name")
                ELSE /\ Return(w, "UploadFailed")
                     /\ new_pkg' = [new_pkg EXCEPT ![w].cksum =
                                       IF answer = "status" THEN "digest" ELSE @]
                     /\ blobs' = blobs \ {path}
                     /\ did' = [did EXCEPT ![w].delete = <<path>>]
                     /\ UNCHANGED puts
    /\ UNCHANGED <<packages, versions, version_dependencies, index, reqs,
                   started, seen, req, user, pkg, vers, dep_i, at_start,
                   resp, oks, dlvars>>

\* Lines 313-356: the PUT of the tarball at the package's s3_path.  The
\* bucket answers 200 ("ok"), another status ("status") or not at all
\* ("error"); only after a 200 is the Bomb built, holding the path.
Upload(w, answer) ==
    /\ pc[w] = "upload"
    /\ LET path == s3_path(pkg[w].name, new_pkg[w].vers)
       IN  IF answer = "ok"
             THEN /\ blobs' = blobs \cup {path}
                  /\ new_pkg' = [new_pkg EXCEPT ![w].cksum = "digest"]
                  /\ bomb' = [bomb EXCEPT ![w] = <<path>>]
                  /\ did' = [did EXCEPT ![w].put = <<path>>]
                  /\ puts' = IF path \in DOMAIN puts
                                THEN [puts EXCEPT ![path] = @ + 1]
                                ELSE puts @@ (path :> 1)
                  /\ Goto(w, "find_by_name")
             ELSE /\ Return(w, "UploadFailed")
                  /\ new_pkg' = [new_pkg EXCEPT ![w].cksum =
                                    IF answer = "status" THEN "digest" ELSE @]
                  /\ UNCHANGED <<blobs, bomb, did, puts>>
    /\ UNCHANGED <<packages, versions, version_dependencies, index, reqs,
                   started, seen, req, user, pkg, vers, dep_i, at_start,
                   resp, oks, dlvars>>

\* A drop that sends no DELETE.
BombDropNothing(path, delOk) == [blobs |-> blobs, delete |-> <<>>]

\* Lines 344-355: Bomb's drop, run whenever `new` is left after line 356:
\* with a path still in it, the DELETE is sent (its answer ignored).
BombDrop(path, delOk) ==
    [blobs |-> IF path # <<>> /\ delOk THEN blobs \ {path[1]} ELSE blobs,
     delete |-> path]

\* Line 366 left out: the path stays in the Bomb.
DisarmForgotten(path) == path

\* Line 366: bomb.path = None.
Disarm(path) == <<>>

\* Lines 359-360: the package is read again; a failure leaves `new` through
\* the Bomb's drop.
FindByName(w, dbOk, delOk) ==
    /\ pc[w] = "find_by_name"
    /\ LET rows == find_by_name(new_pkg[w].name)
           drop == BombDrop(bomb[w], delOk)
       IN  IF dbOk /\ rows # <<>>
             THEN /\ pkg' = [pkg EXCEPT ![w] = rows[1]]
                  /\ Goto(w, "add_package")
                  /\ UNCHANGED <<blobs, did>>
             ELSE /\ Return(w, IF dbOk THEN "NotFound" ELSE "StoreFailure")
                  /\ blobs' = drop.blobs
                  /\ did' = [did EXCEPT ![w].delete = drop.delete]
                  /\ UNCHANGED pkg
    /\ UNCHANGED <<packages, versions, version_dependencies, index, reqs,
                   started, seen, req, new_pkg, user, vers, dep_i, bomb,
                   puts, at_start, resp, oks, dlvars>>

\* The registration tried again after a failure, from the re-read of line
\* 359, until it succeeds.
AddPackageRetries(w, gitOk, delOk) ==
    /\ pc[w] = "add_package"
    /\ LET entry == [name |-> new_pkg[w].name, vers |-> new_pkg[w].vers,
                     cksum |-> new_pkg[w].cksum]
           ok == gitOk /\ ~\E e \in index : e.name = entry.name /\ e.vers = entry.vers
       IN  IF ok
             THEN /\ index' = index \cup {entry}
                  /\ bomb' = [bomb EXCEPT ![w] = <<>>]
                  /\ did' = [did EXCEPT ![w].register = TRUE]
                  /\ Return(w, "Ok")
                  /\ oks' = IF <<entry.name, entry.vers>> \in DOMAIN oks
                              THEN [oks EXCEPT ![<<entry.name, entry.vers>>] = @ + 1]
                              ELSE oks @@ (<<entry.name, entry.vers>> :> 1)
             ELSE /\ Goto(w, "find_by_name")
                  /\ UNCHANGED <<index, bomb, did, oks>>
    /\ UNCHANGED <<packages, versions, version_dependencies, blobs, reqs,
                   started, seen, req, new_pkg, user, pkg, vers, dep_i, puts,
                   at_start, resp, dlvars>>

\* git::add_package: the index takes the entry unless the repository fails
\* or already holds one for the same name and version.
add_package_ok(entry, gitOk) ==
    gitOk /\ ~\E e \in index : e.name = entry.name /\ e.vers = entry.vers

\* Lines 361-370: the registration in the git index; on success the Bomb is
\* disarmed before `new` is left, on failure it is left armed.
AddPackage(w, gitOk, delOk) ==
    /\ pc[w] = "add_package"
    /\ LET entry == [name |-> new_pkg[w].name, vers |-> new_pkg[w].vers,
                     cksum |-> new_pkg[w].cksum]
           ok == add_package_ok(entry, gitOk)
           path == IF ok THEN Disarm(bomb[w]) ELSE bomb[w]
           drop == BombDrop(path, delOk)
       IN  /\ index' = IF ok THEN index \cup {entry} ELSE index
           /\ bomb' = [bomb EXCEPT ![w] = path]
           /\ blobs' = drop.blobs
           /\ did' = [did EXCEPT ![w].register = ok, ![w].delete = drop.delete]
           /\ Return(w, IF ok THEN "Ok" ELSE "IndexingFailed")
           /\ oks' = IF ~ok THEN oks
                     ELSE IF <<entry.name, entry.vers>> \in DOMAIN oks
                       THEN [oks EXCEPT ![<<entry.name, entry.vers>>] = @ + 1]
                       ELSE oks @@ (<<entry.name, entry.vers>> :> 1)
    /\ UNCHANGED <<packages, versions, version_dependencies, reqs, started,
                   seen, req, new_pkg, user, pkg, vers, dep_i, puts,
                   at_start, resp, dlvars>>

Next ==
    \E w \in Workers :
        \/ \E h \in reqs : ParseNewHeaders(w, h)
        \/ \E dbOk \in BOOLEAN : FindOrInsertSelect(w, dbOk)
        \/ \E dbOk \in BOOLEAN : FindOrInsertInsert(w, dbOk)
        \/ \E dbOk \in BOOLEAN : FindByNum(w, dbOk)
        \/ \E dbOk \in BOOLEAN : VersionInsert(w, dbOk)
        \/ \E dbOk \in BOOLEAN : LinkDependency(w, dbOk)
        \/ \E answer \in {"ok", "status", "error"} : Upload(w, answer)
        \/ \E dbOk, delOk \in BOOLEAN : FindByName(w, dbOk, delOk)
        \/ \E gitOk, delOk \in BOOLEAN : AddPackage(w, gitOk, delOk)

Spec == Init /\ [][Next]_vars

\* The statement worker w is at, run to its end: the store, the bucket or
\* the repository it waits for answers.
Step(w) ==
    \/ \E dbOk \in BOOLEAN : FindOrInsertSelect(w, dbOk)
    \/ \E dbOk \in BOOLEAN : FindOrInsertInsert(w, dbOk)
    \/ \E dbOk \in BOOLEAN : FindByNum(w, dbOk)
    \/ \E dbOk \in BOOLEAN : VersionInsert(w, dbOk)
    \/ \E dbOk \in BOOLEAN : LinkDependency(w, dbOk)
    \/ \E answer \in {"ok", "status", "error"} : Upload(w, answer)
    \/ \E dbOk, delOk \in BOOLEAN : FindByName(w, dbOk, delOk)
    \/ \E gitOk, delOk \in BOOLEAN : AddPackage(w, gitOk, delOk)

\* The uploads of a run whose sagas are followed to their end: a rejected
\* one, one without and one with a dependency.
LiveRequests ==
    { [Base EXCEPT !.enc = <<"identity">>],
      UploadRequest("t1", NameA, V100, <<>>),
      UploadRequest("t1", NameB, V100, <<Dep(NameA)>>) }

InitLive ==
    /\ packages = <<>>
    /\ versions = <<>>
    /\ version_dependencies = {}
    /\ blobs = {}
    /\ index = {}
    /\ reqs = LiveRequests
    /\ started = 0
    /\ seen = {}
    /\ pc = [w \in Workers |-> "idle"]
    /\ req = [w \in Workers |-> Base]
    /\ new_pkg = [w \in Workers |-> NoNewPackage]
    /\ user = [w \in Workers |-> 0]
    /\ pkg = [w \in Workers |-> NoPackage]
    /\ vers = [w \in Workers |-> NoVersion]
    /\ dep_i = [w \in Workers |-> 0]
    /\ bomb = [w \in Workers |-> <<>>]
    /\ result = [w \in Workers |-> ""]
    /\ did = [w \in Workers |-> NoWrites]
    /\ puts = <<>>
    /\ at_start = [w \in Workers |-> [existed |-> FALSE, fresh |-> FALSE]]
    /\ resp = NoResponse
    /\ oks = <<>>
    /\ total_downloads = I64(0)
    /\ dl = [d \in Downloaders |-> NoDownload]
    /\ dl_started = 0
    /\ dl_reqs = {}

\* The publish handler with collaborators that answer: no worker waits for
\* ever at a statement.
SpecLive == InitLive /\ [][Next]_vars /\ \A w \in Workers : WF_vars(Step(w))


\* The run that probes the validation of the headers: the same handler, fed
\* every malformed upload.
InitHeaders ==
    /\ packages = <<>>
    /\ versions = <<>>
    /\ version_dependencies = {}
    /\ blobs = {}
    /\ index = {}
    /\ reqs = HeaderRequests
    /\ started = 0
    /\ seen = {}
    /\ pc = [w \in Workers |-> "idle"]
    /\ req = [w \in Workers |-> Base]
    /\ new_pkg = [w \in Workers |-> NoNewPackage]
    /\ user = [w \in Workers |-> 0]
    /\ pkg = [w \in Workers |-> NoPackage]
    /\ vers = [w \in Workers |-> NoVersion]
    /\ dep_i = [w \in Workers |-> 0]
    /\ bomb = [w \in Workers |-> <<>>]
    /\ result = [w \in Workers |-> ""]
    /\ did = [w \in Workers |-> NoWrites]
    /\ puts = <<>>
    /\ at_start = [w \in Workers |-> [existed |-> FALSE, fresh |-> FALSE]]
    /\ resp = NoResponse
    /\ oks = <<>>
    /\ total_downloads = I64(0)
    /\ dl = [d \in Downloaders |-> NoDownload]
    /\ dl_started = 0
    /\ dl_reqs = {}

SpecHeaders == InitHeaders /\ [][Next]_vars

\* ------------------------------------------------------------------------
\* The download handler `download`, one action per statement sent to the
\* store, run beside the publish handler.

\* Download requests received over the whole run.
MaxDownloads == 2

\* The file of name@vers as the registry names it (Package::dl_path).
tarball(name, version) == name \o <<"-">> \o version \o TarGz

\* A download request: the two route parameters and the Accept preference.
DownloadRequest(pkg_name, filename, wants_json) ==
    [pkg_name |-> pkg_name, filename |-> filename, wants_json |-> wants_json]

\* The requests clients send: a version asked for in both response
\* shapes; one downloaded many times; a version that was never published; a file of another package; a file that is no
\* tarball; and two files with nothing between the name and the suffix.
DownloadRequests ==
    { DownloadRequest(NameA, tarball(NameA, V100), FALSE),
      DownloadRequest(NameA, tarball(NameA, V100), TRUE),
      DownloadRequest(NameC, tarball(NameC, V100), FALSE),
      DownloadRequest(NameC, tarball(NameC, V200), FALSE),
      DownloadRequest(NameA, tarball(NameC, V100), FALSE),
      DownloadRequest(NameC, NameC \o <<"-">> \o V100 \o <<".", "z", "i", "p">>, FALSE),
      DownloadRequest(NameC, NameC \o TarGz, FALSE),
      DownloadRequest(NameC \o TarGz, NameC \o TarGz, FALSE) }

\* `download` returns an error.
DownloadErr(d, msg) ==
    dl' = [dl EXCEPT ![d].pc = "done", ![d].kind = "err", ![d].msg = msg]

\* Lines 435-455: a downloader takes a request, checks the filename, cuts
\* the version out of it and looks the pair up.
Download(d, r, dbOk) ==
    /\ dl[d].pc \in {"idle", "done"}
    /\ dl_started < MaxDownloads
    /\ dl_started' = dl_started + 1
    /\ LET fresh == [NoDownload EXCEPT !.pkg_name = r.pkg_name,
                                        !.filename = r.filename,
                                        !.wants_json = r.wants_json]
           version == slice(r.filename, Len(r.pkg_name) + 1,
                            Len(r.filename) - Len(TarGz))
       IN  IF ~starts_with(r.filename, r.pkg_name) \/ ~ends_with(r.filename, TarGz)
             THEN dl' = [dl EXCEPT ![d] =
                            [fresh EXCEPT !.pc = "done", !.kind = "err",
                                          !.msg = "download filename is not a tarball"]]
           ELSE IF version = <<>>
             THEN dl' = [dl EXCEPT ![d] =
                            [fresh EXCEPT !.pc = "done", !.kind = "panic",
                                          !.msg = "slice out of bounds"]]
           ELSE IF ~dbOk
             THEN dl' = [dl EXCEPT ![d] =
                            [fresh EXCEPT !.pc = "done", !.kind = "err",
                                          !.msg = "StoreFailure",
                                          !.version = version]]
           ELSE IF find_download(r.pkg_name, version[1]) = <<>>
             THEN dl' = [dl EXCEPT ![d] =
                            [fresh EXCEPT !.pc = "done", !.kind = "err",
                                          !.msg = "package or version not found",
                                          !.version = version]]
           ELSE dl' = [dl EXCEPT ![d] =
                          [fresh EXCEPT
                             !.pc = "update_packages",
                             !.version = version,
                             !.package_id = find_download(r.pkg_name, version[1])[1][1],
                             !.version_id = find_download(r.pkg_name, version[1])[1][2]]]
    /\ UNCHANGED <<stores, reqs, started, seen, pc, req, locals, result, did,
                   puts, at_start, resp, oks, total_downloads, dl_reqs>>

\* Lines 464-465: UPDATE packages SET downloads = downloads + 1 WHERE id = $1
UpdatePackages(d, dbOk) ==
    /\ dl[d].pc = "update_packages"
    /\ IF ~dbOk \/ column_full(packages[dl[d].package_id].downloads)
         THEN /\ DownloadErr(d, "StoreFailure")
              /\ UNCHANGED packages
         ELSE /\ packages' = [packages EXCEPT ![dl[d].package_id].downloads =
                                  downloads_plus_one(@)]
              /\ dl' = [dl EXCEPT ![d].pc = "update_versions",
                                  ![d].bumped.packages = @ + 1]
    /\ UNCHANGED <<versions, version_dependencies, blobs, index, reqs, started,
                   seen, pc, req, locals, result, did, puts, at_start, resp,
                   oks, total_downloads, dl_started, dl_reqs>>

\* Lines 466-467: UPDATE versions SET downloads = downloads + 1 WHERE id = $1
UpdateVersions(d, dbOk) ==
    /\ dl[d].pc = "update_versions"
    /\ IF ~dbOk \/ column_full(versions[dl[d].version_id].downloads)
         THEN /\ DownloadErr(d, "StoreFailure")
              /\ UNCHANGED versions
         ELSE /\ versions' = [versions EXCEPT ![dl[d].version_id].downloads =
                                  downloads_plus_one(@)]
              /\ dl' = [dl EXCEPT ![d].pc = "update_metadata",
                                  ![d].bumped.versions = @ + 1]
    /\ UNCHANGED <<packages, version_dependencies, blobs, index, reqs, started,
                   seen, pc, req, locals, result, did, puts, at_start, resp,
                   oks, total_downloads, dl_started, dl_reqs>>

\* Lines 468-482: UPDATE metadata SET total_downloads = total_downloads + 1,
\* then the answer: the location, as a JSON envelope or as a redirect.
UpdateMetadata(d, dbOk) ==
    /\ dl[d].pc = "update_metadata"
    /\ IF ~dbOk \/ total_downloads = i64_MAX
         THEN /\ DownloadErr(d, "StoreFailure")
              /\ UNCHANGED total_downloads
         ELSE /\ total_downloads' = total_downloads_plus_one(total_downloads)
              /\ dl' = [dl EXCEPT
                           ![d].pc = "done",
                           ![d].bumped.metadata = @ + 1,
                           ![d].kind = IF dl[d].wants_json THEN "json" ELSE "redirect",
                           ![d].url = redirect_url(dl[d].pkg_name, dl[d].version[1])]
    /\ UNCHANGED <<stores, reqs, started, seen, pc, req, locals, result, did,
                   puts, at_start, resp, oks, dl_started, dl_reqs>>

\* Every step of a download.
DownloadNext ==
    \E d \in Downloaders :
        \/ \E r \in dl_reqs, dbOk \in BOOLEAN : Download(d, r, dbOk)
        \/ \E dbOk \in BOOLEAN : UpdatePackages(d, dbOk)
        \/ \E dbOk \in BOOLEAN : UpdateVersions(d, dbOk)
        \/ \E dbOk \in BOOLEAN : UpdateMetadata(d, dbOk)

\* A registry on which a@1.0.0 was published and never downloaded, and
\* c@1.0.0 was published long ago and has been downloaded all but one of
\* the times its counters can hold; clients download and nobody publishes.
InitDownload ==
    /\ packages = <<[id |-> 1, name |-> NameC, user_id |-> 1,
                     downloads |-> i32_MAX - 1],
                    [id |-> 2, name |-> NameA, user_id |-> 1, downloads |-> 0]>>
    /\ versions = <<[id |-> 1, package_id |-> 1, num |-> V100,
                     downloads |-> i32_MAX - 1],
                    [id |-> 2, package_id |-> 2, num |-> V100, downloads |-> 0]>>
    /\ version_dependencies = {}
    /\ blobs = {s3_path(NameC, V100), s3_path(NameA, V100)}
    /\ index = {[name |-> NameC, vers |-> V100, cksum |-> "digest"],
                [name |-> NameA, vers |-> V100, cksum |-> "digest"]}
    /\ reqs = {}
    /\ started = 0
    /\ seen = {}
    /\ pc = [w \in Workers |-> "idle"]
    /\ req = [w \in Workers |-> Base]
    /\ new_pkg = [w \in Workers |-> NoNewPackage]
    /\ user = [w \in Workers |-> 0]
    /\ pkg = [w \in Workers |-> NoPackage]
    /\ vers = [w \in Workers |-> NoVersion]
    /\ dep_i = [w \in Workers |-> 0]
    /\ bomb = [w \in Workers |-> <<>>]
    /\ result = [w \in Workers |-> ""]
    /\ did = [w \in Workers |-> NoWrites]
    /\ puts = <<>>
    /\ at_start = [w \in Workers |-> [existed |-> FALSE, fresh |-> FALSE]]
    /\ resp = NoResponse
    /\ oks = <<>>
    /\ total_downloads = <<Limb - 2, Limb \div 2 - 1, 0, 0>>
    /\ dl = [d \in Downloaders |-> NoDownload]
    /\ dl_started = 0
    /\ dl_reqs = DownloadRequests

SpecDownload == InitDownload /\ [][DownloadNext]_vars

\* The uploads and the downloads of a run that has both: a@1.0.0, which
\* depends on c, is published while it and c@1.0.0 are downloaded.
MixedPublishRequests == {UploadRequest("t1", NameA, V100, <<Dep(NameC)>>)}
MixedDownloadRequests ==
    { DownloadRequest(NameA, tarball(NameA, V100), FALSE),
      DownloadRequest(NameC, tarball(NameC, V100), TRUE) }

\* A registry with c@1.0.0 alone, downloaded all but one of the times its
\* counters can hold; clients download while the last upload of the run is
\* published.
InitMixed ==
    /\ packages = <<[id |-> 1, name |-> NameC, user_id |-> 1,
                     downloads |-> i32_MAX - 1]>>
    /\ versions = <<[id |-> 1, package_id |-> 1, num |-> V100,
                     downloads |-> i32_MAX - 1]>>
    /\ version_dependencies = {}
    /\ blobs = {s3_path(NameC, V100)}
    /\ index = {[name |-> NameC, vers |-> V100, cksum |-> "digest"]}
    /\ reqs = MixedPublishRequests
    /\ started = MaxRequests - 1
    /\ seen = {}
    /\ pc = [w \in Workers |-> "idle"]
    /\ req = [w \in Workers |-> Base]
    /\ new_pkg = [w \in Workers |-> NoNewPackage]
    /\ user = [w \in Workers |-> 0]
    /\ pkg = [w \in Workers |-> NoPackage]
    /\ vers = [w \in Workers |-> NoVersion]
    /\ dep_i = [w \in Workers |-> 0]
    /\ bomb = [w \in Workers |-> <<>>]
    /\ result = [w \in Workers |-> ""]
    /\ did = [w \in Workers |-> NoWrites]
    /\ puts = <<>>
    /\ at_start = [w \in Workers |-> [existed |-> FALSE, fresh |-> FALSE]]
    /\ resp = NoResponse
    /\ oks = <<>>
    /\ total_downloads = <<Limb - 2, Limb \div 2 - 1, 0, 0>>
    /\ dl = [d \in Downloaders |-> NoDownload]
    /\ dl_started = 0
    /\ dl_reqs = MixedDownloadRequests

NextMixed == Next \/ DownloadNext

SpecMixed == InitMixed /\ [][NextMixed]_vars

\* ------------------------------------------------------------------------
\* Properties.

Done(w) == pc[w] = "done"
Running(w) == pc[w] \notin {"idle", "done"}

\* The blob path of the request worker w carries.
PathOf(w) == s3_path(new_pkg[w].name, new_pkg[w].vers)

\* C1: once the PUT of the blob has answered 200, `new` is left either by a
\* successful registration in the index, with the guard disarmed and no
\* DELETE sent, or with an error (of the re-read of the package or of
\* git::add_package) and a DELETE sent for the blob's path, nothing
\* registered.
C1_RollbackAfterUpload ==
    \A w \in Workers :
        (Done(w) /\ did[w].put # <<>>) =>
            \/ /\ result[w] = "Ok"
               /\ did[w].register
               /\ did[w].delete = <<>>
               /\ bomb[w] = <<>>
            \/ /\ result[w] \in {"IndexingFailed", "StoreFailure", "NotFound"}
               /\ ~did[w].register
               /\ did[w].delete = <<PathOf(w)>>
               /\ did[w].put = <<PathOf(w)>>

C1_Witness ==
    \E w \in Workers :
        /\ Done(w)
        /\ result[w] = "IndexingFailed"
        /\ did[w].put = <<PathOf(w)>>
        /\ did[w].delete = <<PathOf(w)>>
        /\ PathOf(w) \notin blobs

\* C2: under every interleaving of publishes, a path is PUT at most once, a
\* DELETE is sent only by a request that registered nothing, and whenever
\* the index holds (name, version) and no request for that pair is running,
\* the blob is at the pair's path.
C2_CommittedBlobStays ==
    /\ \A path \in DOMAIN puts : puts[path] = 1
    /\ \A w \in Workers : did[w].delete # <<>> => ~did[w].register
    /\ \A e \in index :
        (~\E w \in Workers :
              Running(w) /\ new_pkg[w].name = e.name /\ new_pkg[w].vers = e.vers)
            => s3_path(e.name, e.vers) \in blobs

C2_Witness ==
    \E w1, w2 \in Workers :
        /\ w1 # w2
        /\ new_pkg[w1].name = new_pkg[w2].name
        /\ new_pkg[w1].vers = new_pkg[w2].vers
        /\ Done(w1) /\ result[w1] = "Ok"
        /\ Done(w2) /\ result[w2] = "Conflict"
        /\ [name |-> new_pkg[w1].name, vers |-> new_pkg[w1].vers,
            cksum |-> "digest"] \in index
        /\ PathOf(w1) \in blobs

\* C3: a publish of a pair whose version row was there when the request
\* arrived, sent by the package's owner, ends with VersionAlreadyPublished
\* (or with the store's failure to answer), and no such request, whoever
\* sent it, writes anything: no row, no PUT, no DELETE, no registration.
C3_RepublishWritesNothing ==
    \A w \in Workers :
        at_start[w].existed =>
            /\ did[w] = NoWrites
            /\ (Done(w) /\ find_by_name(new_pkg[w].name)[1].user_id = user[w])
                    => result[w] \in {"VersionAlreadyPublished", "StoreFailure"}
            /\ (Done(w) /\ find_by_name(new_pkg[w].name)[1].user_id # user[w])
                    => result[w] \in {"OwnershipConflict", "StoreFailure"}

C3_Witness ==
    \E w \in Workers :
        /\ Done(w)
        /\ at_start[w].existed
        /\ result[w] = "VersionAlreadyPublished"
        /\ did[w] = NoWrites
        /\ index # {}

\* C4: a publish that ended with UnknownDependency has left no version row,
\* no version_dependencies edge, no blob and no index entry.
C4_UnknownDependencyLeavesNothing ==
    \A w \in Workers :
        (Done(w) /\ result[w] = "UnknownDependency") =>
            /\ ~did[w].vers_row
            /\ did[w].edges = 0
            /\ did[w].put = <<>>
            /\ ~did[w].register

\* C5: a request that found the package's row owned by another account ends
\* with OwnershipConflict and has written nothing, and the row still has the
\* owner the request found.
C5_OwnershipConflictWritesNothing ==
    \A w \in Workers :
        (pkg[w] # NoPackage /\ pkg[w].user_id # user[w]) =>
            /\ Done(w)
            /\ result[w] = "OwnershipConflict"
            /\ did[w] = NoWrites
            /\ find_by_name(new_pkg[w].name) # <<>>
            /\ find_by_name(new_pkg[w].name)[1].user_id = pkg[w].user_id

C5_Witness ==
    \E w \in Workers :
        /\ Done(w)
        /\ result[w] = "OwnershipConflict"
        /\ pkg[w].user_id # user[w]
        /\ did[w] = NoWrites

\* C6: no two package rows have the same name, and the package a
\* find_or_insert returned is the one row of the name it was called with.
C6_OneRowPerName ==
    /\ \A i, j \in 1..Len(packages) :
            packages[i].name = packages[j].name => i = j
    /\ \A w \in Workers :
            pkg[w] # NoPackage =>
                /\ pkg[w].name = new_pkg[w].name
                /\ find_by_name(new_pkg[w].name) # <<>>
                /\ find_by_name(new_pkg[w].name)[1].id = pkg[w].id

C6_Witness ==
    \E w1, w2 \in Workers :
        /\ w1 # w2
        /\ new_pkg[w1].name = new_pkg[w2].name
        /\ did[w1].pkg_row
        /\ Done(w2) /\ result[w2] = "DuplicateKey"
        /\ Cardinality({i \in 1..Len(packages) :
                            packages[i].name = new_pkg[w1].name}) = 1

\* C7: of two concurrent publishers of a name that has no row yet, the one
\* whose INSERT comes second does not fail on it.
C7_LosingInsertDoesNotFail ==
    \A w \in Workers : Done(w) => result[w] # "DuplicateKey"

\* The validation of section 4.4 step 1, stated on the headers: all of them
\* present and well-formed, the name in the charset, the version a semantic
\* version, the declared length within the maximum, tar and gzip markers, a
\* known credential.
NameCharsetOk(name) ==
    /\ name # <<>>
    /\ \A i \in 1..Len(name) :
            name[i] \in Lower \cup Upper \cup Digit \cup {"_", "-"}

ValidUpload(h) ==
    /\ h.auth # <<>> /\ h.auth[1] \in {"t1", "t2"}
    /\ h.name # <<>> /\ NameCharsetOk(h.name[1])
    /\ h.vers # <<>> /\ VersionValid(h.vers[1])
    /\ h.feat = <<"{}">>
    /\ \A i \in 1..Len(h.deps) : h.deps[i].ok
    /\ h.length # <<>> /\ h.length[1] <= max_upload_size
    /\ h.ty = <<"application/x-tar">>
    /\ h.enc \in {<<"gzip">>, <<"x-gzip">>}

\* C8: a request whose upload metadata is not valid is rejected by the
\* parse of its headers and has written nothing: no package row, no version
\* row, no edge, no blob, no index entry.
C8_RejectedWritesNothing ==
    \A w \in Workers :
        (pc[w] # "idle" /\ ~ValidUpload(req[w])) =>
            /\ Done(w)
            /\ result[w] \in Rejections
            /\ did[w] = NoWrites

C8_Witness ==
    \E w \in Workers :
        /\ Done(w)
        /\ ~ValidUpload(req[w])
        /\ result[w] = "invalid package name"
        /\ did[w] = NoWrites

\* C9: a valid publish of a pair no earlier request carried, sent by the
\* owner of the name, every declared dependency resolved, no other request
\* publishing the pair first, and the stores, the bucket and the index all
\* answering, succeeds; the index and the bucket hold the pair and show
\* lists the version.
C9_Excused ==
    Rejections \cup {"StoreFailure", "NotFound", "UploadFailed", "IndexingFailed",
                     "UnknownDependency", "VersionAlreadyPublished", "Conflict"}

C9_FreshPublishSucceeds ==
    \A w \in Workers :
        (/\ Done(w)
         /\ at_start[w].fresh
         /\ result[w] \notin C9_Excused
         /\ \/ find_by_name(new_pkg[w].name) = <<>>
            \/ find_by_name(new_pkg[w].name)[1].user_id = user[w]) =>
            /\ result[w] = "Ok"
            /\ \E e \in index :
                    e.name = new_pkg[w].name /\ e.vers = new_pkg[w].vers
            /\ PathOf(w) \in blobs
            /\ show(new_pkg[w].name) # <<>>
            /\ new_pkg[w].vers \in show(new_pkg[w].name)[1]


\* ------------------------------------------------------------------------
\* The listing handler on its own: any catalog, any query.

\* Packages in the catalog, and version rows in it.
MaxPackages == 3
MaxVersions == 3

\* The names of the catalog's packages, in the order of their rows.
CatalogNames == <<NameA, NameB, <<"a", "b">>, NameC, <<"b", "a">>>>

\* Sequences over S of length n.
SeqN(S, n) == [1..n -> S]

\* The version tables over n packages: each row names its package, a package
\* has at most two versions, 1.0.0 before 2.0.0.
VersionTables(n) ==
    UNION { { [i \in 1..k |->
                [id |-> i, package_id |-> f[i],
                 num |-> IF \E j \in 1..(i - 1) : f[j] = f[i] THEN V200 ELSE V100,
                 downloads |-> 0]]
              : f \in { g \in SeqN(1..n, k) :
                          \A q \in 1..n : Cardinality({i \in 1..k : g[i] = q}) <= 2 } }
            : k \in 0..MaxVersions }

PackageTable(n) ==
    [i \in 1..n |-> [id |-> i, name |-> CatalogNames[i], user_id |-> 1,
                     downloads |-> 0]]

\* The page numbers asked for: small ones, 2^62 + 1, the largest i64, zero.
Pages == {I64(1), I64(2), I64(3), I64(0), <<1, 0, 0, 2^14>>,
          <<Limb - 1, Limb - 1, Limb - 1, 2^15 - 1>>}
PerPages == {-1, 0, 1, 2, 4, 10, 100, 101}
Letters == {<<>>, <<<<>>>>, <<<<"a">>>>, <<<<"B", "x">>>>, <<<<"_">>>>}

InitIndex ==
    /\ \E n \in 0..MaxPackages :
          /\ n <= Len(CatalogNames)
          /\ packages = PackageTable(n)
          /\ versions \in VersionTables(n)
    /\ version_dependencies = {}
    /\ blobs = {}
    /\ index = {}
    /\ reqs = {}
    /\ started = 0
    /\ seen = {}
    /\ pc = [w \in Workers |-> "idle"]
    /\ req = [w \in Workers |-> Base]
    /\ new_pkg = [w \in Workers |-> NoNewPackage]
    /\ user = [w \in Workers |-> 0]
    /\ pkg = [w \in Workers |-> NoPackage]
    /\ vers = [w \in Workers |-> NoVersion]
    /\ dep_i = [w \in Workers |-> 0]
    /\ bomb = [w \in Workers |-> <<>>]
    /\ result = [w \in Workers |-> ""]
    /\ did = [w \in Workers |-> NoWrites]
    /\ puts = <<>>
    /\ at_start = [w \in Workers |-> [existed |-> FALSE, fresh |-> FALSE]]
    /\ resp = NoResponse
    /\ oks = <<>>
    /\ total_downloads = I64(0)
    /\ dl = [d \in Downloaders |-> NoDownload]
    /\ dl_started = 0
    /\ dl_reqs = {}

\* A client asks for a page of the list; each run asks one query of its
\* catalog.
Index(page, per_page, letter) ==
    /\ resp = NoResponse
    /\ resp' = [query |-> [page |-> page, per_page |-> per_page, letter |-> letter]]
                 @@ index_response(page, per_page, letter)
    /\ UNCHANGED <<stores, reqs, started, seen, pc, req, locals, result, did,
                   puts, at_start, oks, dlvars>>

NextIndex ==
    \E page \in Pages, per_page \in PerPages, letter \in Letters :
        Index(page, per_page, letter)

SpecIndex == InitIndex /\ [][NextIndex]_vars

\* The packages the query's letter selects, and of them the number left
\* after the (page - 1) * per_page before the page, in the integers.
C10_Matching(q) ==
    SelectSeq(packages,
              LAMBDA p : \/ q.letter = <<>>
                         \/ /\ Len(p.name) >= 1
                            /\ to_lowercase(p.name[1]) = to_lowercase(q.letter[1][1]))

C10_Remaining(q) ==
    LET before == IF clamped(wrapping_dec(q.page)) = Limb THEN Limb
                  ELSE clamped(wrapping_dec(q.page)) * q.per_page
        n == Len(C10_Matching(q))
    IN  IF before >= n THEN 0 ELSE n - before

\* C10: a query with per_page above 100 fails with InvalidRequest; one with
\* per_page in 1..100 and page >= 1 is answered with min(per_page, matching
\* packages left after the offset (page - 1) * per_page) packages. (Stated
\* for queries whose letter is absent or an ordinary character, over
\* catalogs whose packages all have a version.)
C10_PageSize ==
    (/\ resp.kind # "none"
     /\ resp.query.letter \in {<<>>, <<<<"a">>>>, <<<<"B", "x">>>>}
     /\ \A i \in 1..Len(packages) : \E j \in 1..Len(versions) :
            versions[j].package_id = packages[i].id) =>
        /\ resp.query.per_page > 100 =>
              /\ resp.kind = "err"
              /\ resp.msg = "cannot request more than 100 packages"
        /\ (/\ resp.query.per_page \in 1..100
            /\ ~is_negative(resp.query.page)
            /\ resp.query.page # I64(0)) =>
              /\ resp.kind = "ok"
              /\ Len(resp.packages) <= resp.query.per_page
              /\ Len(resp.packages) =
                    IF resp.query.per_page <= C10_Remaining(resp.query)
                      THEN resp.query.per_page
                      ELSE C10_Remaining(resp.query)

\* The same for the pages whose offset fits an i64.
C10_PageSizeSmallPages ==
    (resp.kind # "none" /\ clamped(wrapping_dec(resp.query.page)) < Limb)
        => C10_PageSize


\* ------------------------------------------------------------------------
\* Properties of the encoding of a batch, of the download handler and of
\* the downloads beside the publishes.

\* The ids of the version rows of the package of that name.
VersionIdsOf(name) ==
    {j \in 1..Len(versions) :
        \E i \in 1..Len(packages) :
            packages[i].name = name /\ versions[j].package_id = packages[i].id}

\* C11: the list, asked for a page in range with a per_page of at most 100
\* and a letter that is absent or not empty, succeeds on every catalog,
\* one with a package that has no version included, and each package it
\* returns carries exactly the ids of its own versions (none for a package
\* without versions).
C11_ListEncodesVersionless ==
    (/\ resp.kind # "none"
     /\ resp.query.per_page \in 0..100
     /\ resp.query.page \in {I64(1), I64(2), I64(3)}
     /\ resp.query.letter # <<<<>>>>) =>
        /\ resp.kind = "ok"
        /\ \A i \in 1..Len(resp.packages) :
              resp.packages[i].versions = VersionIdsOf(resp.packages[i].name)

\* C12: in every state no download counter is negative, and no step of a
\* download or of a publish lowers the counter of a package row, of a
\* version row or the total.
C12_CountersMonotonic ==
    /\ [](/\ \A i \in 1..Len(packages) : packages[i].downloads >= 0
          /\ \A j \in 1..Len(versions) : versions[j].downloads >= 0
          /\ ~is_negative(total_downloads))
    /\ [][/\ Len(packages') >= Len(packages)
          /\ \A i \in 1..Len(packages) :
                packages'[i].downloads >= packages[i].downloads
          /\ Len(versions') >= Len(versions)
          /\ \A j \in 1..Len(versions) :
                versions'[j].downloads >= versions[j].downloads
          /\ I64Leq(total_downloads, total_downloads')]_vars

C12_Witness ==
    /\ Len(packages) = 2
    /\ packages[1].downloads = i32_MAX
    /\ packages[2].downloads = 1
    /\ versions[2].downloads = 1
    /\ \E w \in Workers : Running(w)
    /\ \E d \in Downloaders : dl[d].pc = "done" /\ dl[d].bumped = [NoBumps EXCEPT !.packages = 1, !.versions = 1, !.metadata = 1]

\* The location of the blob of the rows a download resolved to.
LocationOf(package_id, version_id) ==
    <<"h", "t", "t", "p", "s", ":", "/", "/">> \o bucket_host
        \o s3_path(packages[package_id].name, versions[version_id].num)

Answered(d) == dl[d].pc = "done" /\ dl[d].kind \in {"redirect", "json"}

NotServed(d) ==
    /\ dl[d].pc = "done"
    /\ dl[d].kind = "err"
    /\ dl[d].msg \in {"package or version not found",
                       "download filename is not a tarball"}

\* C13: a download that is answered, in either shape, has added exactly 1
\* to the counter of the package row and of the version row it resolved to
\* and to the total, each UPDATE changing that one counter by one, and
\* carries the location https://<host>/pkg/<name>/<name>-<version>.tar.gz
\* of those rows; one that ends with NotFound or with the rejection of the
\* filename has changed no counter.
C13_DownloadCounts ==
    /\ [](\A d \in Downloaders :
            /\ Answered(d) =>
                  /\ dl[d].bumped = [packages |-> 1, versions |-> 1, metadata |-> 1]
                  /\ dl[d].url = LocationOf(dl[d].package_id, dl[d].version_id)
                  /\ dl[d].kind = IF dl[d].wants_json THEN "json" ELSE "redirect"
            /\ NotServed(d) => dl[d].bumped = NoBumps)
    /\ [][\A d \in Downloaders :
            /\ (dl[d].pc = "update_packages" /\ dl'[d].pc = "update_versions") =>
                  /\ packages' = [packages EXCEPT
                                     ![dl[d].package_id].downloads = @ + 1]
                  /\ UNCHANGED <<versions, total_downloads>>
            /\ (dl[d].pc = "update_versions" /\ dl'[d].pc = "update_metadata") =>
                  /\ versions' = [versions EXCEPT
                                     ![dl[d].version_id].downloads = @ + 1]
                  /\ UNCHANGED <<packages, total_downloads>>
            /\ (dl[d].pc = "update_metadata" /\ Answered(d)') =>
                  /\ wrapping_dec(total_downloads') = total_downloads
                  /\ UNCHANGED <<packages, versions>>
            /\ (dl[d].pc \in {"idle", "done"} /\ dl'[d] # dl[d]) =>
                  UNCHANGED <<packages, versions, total_downloads>>]_vars

C13_Witness ==
    \E d1, d2 \in Downloaders :
        /\ d1 # d2
        /\ Answered(d1) /\ dl[d1].kind = "redirect"
        /\ Answered(d2) /\ dl[d2].kind = "json"
        /\ dl[d1].url = dl[d2].url
        /\ dl[d1].url = LocationOf(2, 2)
        /\ packages[2].downloads = 2
        /\ versions[2].downloads = 2

\* C14: a download whose package and version resolved is answered with the
\* location of the blob, whatever became of the three UPDATEs of the
\* counters.
C14_CountersNeverFailRedirect ==
    \A d \in Downloaders :
        (dl[d].pc = "done" /\ dl[d].package_id # 0) =>
            /\ dl[d].kind \in {"redirect", "json"}
            /\ dl[d].url = LocationOf(dl[d].package_id, dl[d].version_id)

\* C15: once every publish has ended, in success, UploadFailed or
\* IndexingFailed, show lists only versions the index holds an entry for,
\* and every download that resolved and was counted is of a version the
\* index holds an entry for.
C15_UnindexedNotServed ==
    (\A w \in Workers :
        /\ ~Running(w)
        /\ result[w] \in {"", "Ok", "UploadFailed", "IndexingFailed"}) =>
        /\ \A i \in 1..Len(packages) :
              \A num \in show(packages[i].name)[1] :
                  \E e \in index : e.name = packages[i].name /\ e.vers = num
        /\ \A d \in Downloaders :
              (dl[d].pc = "done" /\ dl[d].bumped.versions > 0) =>
                  \E e \in index :
                      e.name = dl[d].pkg_name /\ e.vers = dl[d].version[1]

\* C19: every download ends with a typed result, an answer or an error; no
\* pair of package name and filename makes the handler fault.
C19_DownloadTyped ==
    \A d \in Downloaders :
        dl[d].pc = "done" => dl[d].kind \in {"redirect", "json", "err"}


\* ------------------------------------------------------------------------
\* Properties of the order of the saga's steps.

\* The PUT of the request of w is the next statement, or was sent.
PutAttempted(w) ==
    \/ pc[w] \in {"upload", "find_by_name", "add_package"}
    \/ Done(w) /\ (result[w] = "UploadFailed" \/ did[w].put # <<>>)

\* git::add_package is the next statement, or was called.
RegisterAttempted(w) ==
    \/ pc[w] = "add_package"
    \/ Done(w) /\ result[w] \in {"Ok", "IndexingFailed"}

\* Validation passed, the package row is there with the caller as owner,
\* this request inserted the version row, and every declared dependency
\* has its edge from that row.
Reserved(w) ==
    /\ ValidUpload(req[w])
    /\ find_by_name(new_pkg[w].name) # <<>>
    /\ find_by_name(new_pkg[w].name)[1].user_id = user[w]
    /\ did[w].vers_row
    /\ vers[w] \in {versions[j] : j \in 1..Len(versions)}
    /\ vers[w].num = new_pkg[w].vers
    /\ vers[w].package_id = find_by_name(new_pkg[w].name)[1].id
    /\ did[w].edges = Len(new_pkg[w].deps)
    /\ \A i \in 1..Len(new_pkg[w].deps) :
          /\ find_by_name(new_pkg[w].deps[i]) # <<>>
          /\ <<vers[w].id, find_by_name(new_pkg[w].deps[i])[1].id>>
                \in version_dependencies

\* C16: the PUT of the blob is attempted only by a request whose
\* validation passed, whose package row exists with the caller as owner,
\* whose version row is inserted and whose declared dependencies are all
\* linked; the registration in the index only by such a request whose PUT
\* was answered 200.
C16_StepsInOrder ==
    \A w \in Workers :
        /\ PutAttempted(w) => Reserved(w)
        /\ RegisterAttempted(w) =>
              /\ Reserved(w)
              /\ did[w].put = <<PathOf(w)>>
              /\ puts[PathOf(w)] >= 1

C16_Witness ==
    \E w \in Workers :
        /\ Done(w)
        /\ result[w] = "Ok"
        /\ Len(new_pkg[w].deps) = 1
        /\ did[w].edges = 1
        /\ did[w].put = <<PathOf(w)>>

\* The version rows of the pair (name, num).
VersionRowsOf(name, num) ==
    {j \in 1..Len(versions) :
        /\ versions[j].num = num
        /\ \E i \in 1..Len(packages) :
              packages[i].name = name /\ packages[i].id = versions[j].package_id}

\* C17: no pair (name, version) has had more than one publish return Ok,
\* the index holds at most one entry for a pair, and the pair of an entry
\* has one version row: of two sagas that both passed the existence check,
\* the second to insert is refused.
C17_OneSuccessPerPair ==
    /\ \A k \in DOMAIN oks : oks[k] = 1
    /\ \A e1, e2 \in index :
          (e1.name = e2.name /\ e1.vers = e2.vers) => e1 = e2
    /\ \A e \in index : Cardinality(VersionRowsOf(e.name, e.vers)) = 1

C17_Witness ==
    \E w1, w2 \in Workers :
        /\ w1 # w2
        /\ <<new_pkg[w1].name, new_pkg[w1].vers>> = <<new_pkg[w2].name, new_pkg[w2].vers>>
        /\ ~at_start[w1].existed /\ ~at_start[w2].existed
        /\ Done(w1) /\ result[w1] = "Ok"
        /\ Done(w2) /\ result[w2] = "Conflict"
        /\ oks[<<new_pkg[w1].name, new_pkg[w1].vers>>] = 1

\* C18: a publish whose PUT failed or was answered with another status
\* than 200 ends with UploadFailed: the guard was never armed, no DELETE
\* was sent, nothing was registered, and the package row and the version
\* row of the request are in the catalog.
C18_UploadFailedKeepsRows ==
    \A w \in Workers :
        (Done(w) /\ result[w] = "UploadFailed") =>
            /\ bomb[w] = <<>>
            /\ did[w].put = <<>>
            /\ did[w].delete = <<>>
            /\ ~did[w].register
            /\ find_by_name(new_pkg[w].name) # <<>>
            /\ did[w].vers_row
            /\ find_by_num(find_by_name(new_pkg[w].name)[1].id, new_pkg[w].vers)
                  = <<vers[w]>>

C18_Witness ==
    \E w \in Workers :
        /\ Done(w)
        /\ result[w] = "UploadFailed"
        /\ did[w].pkg_row
        /\ did[w].vers_row
        /\ VersionRowsOf(new_pkg[w].name, new_pkg[w].vers) # {}
        /\ \A e \in index : e.name # new_pkg[w].name
        /\ PathOf(w) \notin blobs

\* The state of the saga of worker w (spec section 4.4).  The parse of the
\* headers is one step, so Validating is the step that takes the request;
\* an ended saga is Committed if it returned Ok, RolledBack if it failed
\* with its PUT sent, Aborted if it failed before.
Phase(w) ==
    CASE pc[w] = "idle" -> "Idle"
      [] pc[w] \in {"find_or_insert", "insert_package", "find_by_num",
                    "insert_version", "link_dependency"} -> "Reserving"
      [] pc[w] = "upload" -> "Uploading"
      [] pc[w] \in {"find_by_name", "add_package"} -> "Indexing"
      [] Done(w) /\ result[w] = "Ok" -> "Committed"
      [] Done(w) /\ result[w] # "Ok"
           /\ (result[w] = "UploadFailed" \/ did[w].put # <<>>) -> "RolledBack"
      [] OTHER -> "Aborted"

Terminal == {"Committed", "RolledBack", "Aborted"}

\* The edges of the saga's state machine; the step that takes a request
\* starts a saga, from Validating.
PhaseEdges ==
    {<<"Reserving", "Reserving">>, <<"Reserving", "Uploading">>,
     <<"Reserving", "Aborted">>, <<"Uploading", "Indexing">>,
     <<"Uploading", "RolledBack">>, <<"Indexing", "Indexing">>,
     <<"Indexing", "Committed">>, <<"Indexing", "RolledBack">>}

\* The step in which worker w takes a request.
TakesRequest(w) ==
    /\ started' = started + 1
    /\ <<pc[w], req[w], result[w], did[w], bomb[w]>>
          # <<pc'[w], req'[w], result'[w], did'[w], bomb'[w]>>

\* C20: with collaborators that answer, every saga ends; an ended saga
\* stays as it ended until its worker takes another request; a saga moves
\* only along Validating -> Reserving -> Uploading -> Indexing -> Committed,
\* to Aborted only from Validating or Reserving and then without a PUT or
\* a DELETE, to RolledBack only from Uploading or Indexing; and no ended
\* saga holds a guard that is armed and has not fired.
C20_SagaEnds ==
    /\ \A w \in Workers : Running(w) ~> Done(w)
    /\ [](\A w \in Workers :
            /\ Phase(w) \in Terminal =>
                  (bomb[w] = <<>> \/ did[w].delete = bomb[w])
            /\ Phase(w) = "Committed" =>
                  did[w].register /\ did[w].delete = <<>> /\ bomb[w] = <<>>
            /\ Phase(w) = "RolledBack" =>
                  ~did[w].register /\ did[w].delete = did[w].put
            /\ Phase(w) = "Aborted" =>
                  ~did[w].register /\ did[w].put = <<>> /\ did[w].delete = <<>>)
    /\ [][\A w \in Workers :
            IF TakesRequest(w)
              THEN Phase(w)' \in {"Reserving", "Aborted"}
              ELSE \/ <<pc[w], result[w], did[w], bomb[w]>>
                        = <<pc'[w], result'[w], did'[w], bomb'[w]>>
                   \/ <<Phase(w), Phase(w)'>> \in PhaseEdges]_vars

C20_Witness ==
    \E w1, w2 \in Workers :
        /\ Phase(w1) = "RolledBack"
        /\ result[w1] = "IndexingFailed"
        /\ did[w1].delete = did[w1].put
        /\ Phase(w2) = "Aborted"
        /\ result[w2] = "UnknownDependency"


\* ------------------------------------------------------------------------
\* Properties of the list's filter and total.

\* The prefix a query gives: its letter parameter, empty when absent.
PrefixOf(q) == IF q.letter = <<>> THEN <<>> ELSE q.letter[1]

\* The name starts with the prefix, case-insensitively.
HasPrefix(name, prefix) == starts_with(lowercase(name), lowercase(prefix))

\* The query is one the list answers whatever its prefix: a page whose
\* offset is in range, a per_page of at most 100, on a catalog whose
\* packages all have a version.
C21_InRange ==
    /\ resp.kind # "none"
    /\ resp.query.per_page \in 0..100
    /\ resp.query.page \in {I64(1), I64(2), I64(3)}
    /\ \A i \in 1..Len(packages) : \E j \in 1..Len(versions) :
          versions[j].package_id = packages[i].id

\* C21: the list succeeds for every prefix, the absent and the empty one
\* included; its total is the number of packages whose name starts,
\* case-insensitively, with the prefix, whatever the page and per_page; and
\* the page holds only such packages.
C21_TotalCountByPrefix ==
    C21_InRange =>
        /\ resp.kind = "ok"
        /\ resp.total =
              Cardinality({i \in 1..Len(packages) :
                              HasPrefix(packages[i].name, PrefixOf(resp.query))})
        /\ \A i \in 1..Len(resp.packages) :
              HasPrefix(resp.packages[i].name, PrefixOf(resp.query))

\* The same for the queries whose prefix is absent or one letter or digit.
C21_TotalCountOneLetter ==
    (C21_InRange /\ resp.query.letter \in {<<>>, <<<<"a">>>>}) =>
        C21_TotalCountByPrefix

\* The same for a prefix of two characters: the second one is not looked at.
C21_TotalCountLongPrefix ==
    (C21_InRange /\ resp.query.letter = <<<<"B", "x">>>>) =>
        C21_TotalCountByPrefix

=============================================================================
